---- MODULE Spec2Model ----
(***************************************************************************)
(* SubchannelStreamClient and SubchannelStreamClient::CallState            *)
(* (src/core/ext/filters/client_channel/subchannel_stream_client.cc).      *)
(*                                                                         *)
(* One client and a pool of CallState slots.  Every handler that runs      *)
(* under the client's mutex mu_ is one action.  The call combiner of a     *)
(* CallState is a FIFO of closures; the transport below SubchannelCall and *)
(* the timer substrate are the environment.                                *)
(***************************************************************************)
EXTENDS Integers, Sequences, FiniteSets, TLC

\* ------------------------------------------------------------------ bounds
\* CallState objects that may exist (not yet deleted) at the same time.
MaxLive == 2
\* Messages the transport hands to one attempt.
MaxMsgs == 2
\* Consecutive retry timers armed without a backoff reset.
MaxRetries == 2
\* The same, in the runs of failures without a message (SpecBackoff).
MaxBackoffRetries == 13
\* Messages the transport hands to one attempt in those runs.
MaxBackoffMsgs == 1

\* Calls of Orphan() on one client (SpecReorphan).
MaxOrphans == 2

\* ------------------------------------------------------- program constants
\* SUBCHANNEL_STREAM_INITIAL_CONNECT_BACKOFF_SECONDS, in milliseconds
InitialBackoffMs == 1000
\* SUBCHANNEL_STREAM_RECONNECT_BACKOFF_MULTIPLIER 1.6 as a fraction
MultiplierNum == 16
MultiplierDen == 10
\* SUBCHANNEL_STREAM_RECONNECT_MAX_BACKOFF_SECONDS, in milliseconds
MaxBackoffMs == 120000
\* SUBCHANNEL_STREAM_RECONNECT_JITTER 0.2 as a fraction
JitterNum == 2
JitterDen == 10

Slots == 1..MaxLive
NoCall == 0

\* grpc_status_code values the model distinguishes
Statuses == {"OK", "UNKNOWN", "CANCELLED", "UNIMPLEMENTED"}
\* what recv_trailing_metadata_ carries: a status or nothing
MetadataStatuses == {"NONE", "OK", "UNIMPLEMENTED"}
\* the error handed to RecvTrailingMetadataReady, by the status it maps to
TrailingErrors == {"NONE", "CANCELLED", "UNIMPLEMENTED"}
\* the random draw of the jitter: lowest, none, highest
JitterChoices == {-1, 0, 1}

VARIABLES
  event_handler,   \* event_handler_ != nullptr
  call_state,      \* call_state_: a slot, or NoCall for nullptr
  retry_pending,   \* retry_timer_callback_pending_
  backoff,         \* retry_backoff_: the number of delays handed out since Reset
  refs,            \* the client's reference count
  timer,           \* retry_timer_: "idle", "armed", "fired" or "cancelled"
  timer_delay,     \* the delay retry_timer_ was last armed with (ms)
  cs,              \* the CallState objects, by slot
  started,         \* the constructor has run StartCall()
  orphans,         \* how many times Orphan() was called
  abort,           \* the GPR_ASSERT that failed, or "none"
  limits,          \* the bounds of this run, fixed by the initial state
  hist             \* observations of the run (no effect on the program)

vars == <<event_handler, call_state, retry_pending, backoff, refs, timer,
          timer_delay, cs, started, orphans, abort, limits, hist>>

\* The program state as one value, so that a handler is a function on it.
Cur ==
  [event_handler |-> event_handler, call_state |-> call_state,
   retry_pending |-> retry_pending, backoff |-> backoff, refs |-> refs,
   timer |-> timer, timer_delay |-> timer_delay, cs |-> cs,
   started |-> started, orphans |-> orphans, abort |-> abort,
   limits |-> limits, hist |-> hist]

Set(s) ==
  /\ event_handler' = s.event_handler
  /\ call_state' = s.call_state
  /\ retry_pending' = s.retry_pending
  /\ backoff' = s.backoff
  /\ refs' = s.refs
  /\ timer' = s.timer
  /\ timer_delay' = s.timer_delay
  /\ cs' = s.cs
  /\ started' = s.started
  /\ orphans' = s.orphans
  /\ abort' = s.abort
  /\ limits' = s.limits
  /\ hist' = s.hist

Min(a, b) == IF a <= b THEN a ELSE b

\* ------------------------------------------------------------ CallState
\* A slot that holds no CallState (never created, or deleted).
FreeCall ==
  [alive |-> FALSE, cancelled |-> FALSE, seen_response |-> FALSE, refs |-> 0,
   combiner |-> <<>>, on_complete |-> FALSE, recv_initial_metadata |-> FALSE,
   recv_message |-> "none", recv_trailing_metadata |-> FALSE,
   cancel_op |-> FALSE, transport_cancelled |-> FALSE,
   \* the messages the transport has handed to this call so far
   msgs |-> 0,
   \* observations of this attempt: SubchannelCall::Create failed; how
   \* CallEndedLocked found it ("no": not ended); a decode of one of its
   \* messages failed; calls of OnCallStartLocked, of
   \* RecvTrailingMetadataReadyLocked and cancel operations made for it
   create_failed |-> FALSE, ended |-> "no", decode_failed |-> FALSE,
   call_starts |-> 0, notified |-> 0, cancels |-> 0,
   \* what RecvTrailingMetadataReady found: the status in the metadata,
   \* the error handed to it, and the status it computed from them
   md |-> "NONE", err |-> "NONE", status |-> "NONE",
   \* pulling a chunk of one of its messages reported an error
   read_error |-> FALSE]

\* CallState::CallState plus SubchannelCall::Create: the call starts with
\* one reference, the initial one.
NewCall ==
  [FreeCall EXCEPT !.alive = TRUE, !.refs = 1, !.call_starts = 1]

FreeSlots(s) == {c \in 1..s.limits.live : ~s.cs[c].alive}
HasFreeSlot(s) == FreeSlots(s) # {}
FreeSlot(s) == CHOOSE c \in FreeSlots(s) : \A d \in FreeSlots(s) : c <= d

\* call_->Ref(...).release()
CallRef(s, c) == [s EXCEPT !.cs[c].refs = @ + 1]
\* call_->Unref(...)
CallUnref(s, c) == [s EXCEPT !.cs[c].refs = @ - 1]
\* GRPC_CALL_COMBINER_START(&call_combiner_, closure, ...)
CombinerStart(s, c, closure) == [s EXCEPT !.cs[c].combiner = Append(@, closure)]

\* ------------------------------------------------------------- BackOff
\* min(cap, initial * multiplier^n), computed as BackOff does: one
\* multiplication by the multiplier per step, in whole milliseconds.
RECURSIVE PolicyDelay(_)
PolicyDelay(n) ==
  IF n = 0 THEN InitialBackoffMs
  ELSE Min(MaxBackoffMs, (PolicyDelay(n - 1) * MultiplierNum) \div MultiplierDen)

\* the jittered delay for the draw j
Jittered(base, j) == base + j * ((base * JitterNum) \div JitterDen)

\* BackOff::NextAttemptTime() - Now(): the delay for the state b and draw j
NextAttemptTime(b, j) == Jittered(PolicyDelay(b), j)

\* BackOff::Reset()
BackoffReset == 0

\* ------------------------------------------------- CallState: cancel
\* Fault: Cancel sets cancelled_ without testing it first.
Cancel_NoGuard(s, c) ==
  CombinerStart(
    CallRef([s EXCEPT !.cs[c].cancelled = TRUE, !.cs[c].cancels = @ + 1], c),
    c, "cancel")

\* CallState::Cancel(): the compare-exchange on cancelled_ lets only the
\* first caller take the "cancel" reference and queue StartCancel.
Cancel(s, c) ==
  IF s.cs[c].cancelled THEN s
  ELSE CombinerStart(
         CallRef([s EXCEPT !.cs[c].cancelled = TRUE, !.cs[c].cancels = @ + 1], c),
         c, "cancel")

\* CallState::Orphan(), run when the OrphanablePtr call_state_ is reset.
CallState_Orphan(s, c) == Cancel(s, c)

\* ------------------------------------------------- client, under mu_
\* Fault: StartRetryTimerLocked asks the backoff for a delay twice.
StartRetryTimerLocked_TwoDelays(s, j) ==
  [s EXCEPT !.backoff = @ + 2,
            !.refs = @ + 1,
            !.retry_pending = TRUE,
            !.timer = "armed",
            !.timer_delay = NextAttemptTime(s.backoff + 1, j),
            !.hist.armed = @ + 1]

\* Fault: StartRetryTimerLocked without grpc_timer_init.
StartRetryTimerLocked_NoTimerInit(s, j) ==
  [s EXCEPT !.backoff = @ + 1,
            !.refs = @ + 1,
            !.retry_pending = TRUE,
            !.timer_delay = NextAttemptTime(s.backoff, j),
            !.hist.armed = @ + 1]

\* SubchannelStreamClient::StartRetryTimerLocked(); j is the jitter draw.
StartRetryTimerLocked(s, j) ==
  [s EXCEPT !.backoff = @ + 1,
            !.refs = @ + 1,
            !.retry_pending = TRUE,
            !.timer = "armed",
            !.timer_delay = NextAttemptTime(s.backoff, j),
            !.hist.armed = @ + 1]

RECURSIVE CallEndedLocked(_, _, _, _)

\* Fault: StartCallLocked takes no reference for recv_message_ready.
CallState_StartCallLocked_NoMessageRef(s, c, in) ==
  IF ~in.create_ok \/ ~s.event_handler
  THEN CallEndedLocked([s EXCEPT !.cs[c].create_failed = TRUE], c, TRUE, in)
  ELSE LET s1 == CallRef(CallRef(s, c), c)
       IN CombinerStart(CombinerStart(s1, c, "batch"),
                        c, "recv_trailing_metadata_batch")

\* Fault: a failed SubchannelCall::Create ends the call without retry.
CallState_StartCallLocked_NoRetry(s, c, in) ==
  IF ~in.create_ok \/ ~s.event_handler
  THEN CallEndedLocked([s EXCEPT !.cs[c].create_failed = TRUE], c, FALSE, in)
  ELSE LET s1 == CallRef(CallRef(CallRef(s, c), c), c)
       IN CombinerStart(CombinerStart(s1, c, "batch"),
                        c, "recv_trailing_metadata_batch")

\* CallState::StartCallLocked(); in.create_ok is the outcome of
\* SubchannelCall::Create.
CallState_StartCallLocked(s, c, in) ==
  IF ~in.create_ok \/ ~s.event_handler
  THEN CallEndedLocked([s EXCEPT !.cs[c].create_failed = TRUE], c, TRUE, in)
  ELSE LET s1 == CallRef(CallRef(CallRef(s, c), c), c)
       IN CombinerStart(CombinerStart(s1, c, "batch"),
                        c, "recv_trailing_metadata_batch")

\* SubchannelStreamClient::StartCallLocked()
StartCallLocked(s, in) ==
  IF ~s.event_handler THEN s
  ELSE IF s.call_state # NoCall THEN [s EXCEPT !.abort = "call_state"]
  ELSE IF ~HasFreeSlot(s) THEN [s EXCEPT !.abort = "bound"]
  ELSE LET c == FreeSlot(s)
           s1 == [s EXCEPT !.cs[c] = NewCall,
                           !.call_state = c,
                           !.refs = @ + 1]
       IN CallState_StartCallLocked(s1, c, in)

\* Fault: CallEndedLocked without the test this == call_state_.get().
CallEndedLocked_AnyCallState(s, c, retry, in) ==
  LET s1 == IF c = s.call_state
            THEN [CallState_Orphan(s, c) EXCEPT !.call_state = NoCall]
            ELSE s
      s2 == IF retry
            THEN IF ~s1.event_handler
                 THEN [s1 EXCEPT !.abort = "event_handler"]
                 ELSE IF s1.cs[c].seen_response
                 THEN StartCallLocked(
                        [s1 EXCEPT !.backoff = BackoffReset], in)
                 ELSE StartRetryTimerLocked(s1, in.jitter)
            ELSE s1
  IN IF s2.abort # "none" THEN s2
     ELSE CallUnref([s2 EXCEPT !.cs[c].ended =
                                  IF c = s.call_state THEN "active"
                                  ELSE "stale"], c)

\* Fault: CallEndedLocked without retry_backoff_.Reset().
CallEndedLocked_NoReset(s, c, retry, in) ==
  LET active == (c = s.call_state)
      s1 == IF active
            THEN [CallState_Orphan(s, c) EXCEPT !.call_state = NoCall]
            ELSE s
      s2 == IF active /\ retry
            THEN IF ~s1.event_handler
                 THEN [s1 EXCEPT !.abort = "event_handler"]
                 ELSE IF s1.cs[c].seen_response
                 THEN StartCallLocked(s1, in)
                 ELSE StartRetryTimerLocked(s1, in.jitter)
            ELSE s1
  IN IF s2.abort # "none" THEN s2
     ELSE CallUnref([s2 EXCEPT !.cs[c].ended =
                                  IF active THEN "active" ELSE "stale"], c)

\* Fault: CallEndedLocked without call_state_.reset().
CallEndedLocked_KeepsCallState(s, c, retry, in) ==
  LET active == (c = s.call_state)
      s2 == IF active /\ retry
            THEN IF ~s.event_handler
                 THEN [s EXCEPT !.abort = "event_handler"]
                 ELSE IF s.cs[c].seen_response
                 THEN StartCallLocked(
                        [s EXCEPT !.backoff = BackoffReset], in)
                 ELSE StartRetryTimerLocked(s, in.jitter)
            ELSE s
  IN IF s2.abort # "none" THEN s2
     ELSE CallUnref([s2 EXCEPT !.cs[c].ended =
                                  IF active THEN "active" ELSE "stale"], c)

\* Fault: CallEndedLocked drops call_state_ without CallState::Orphan().
CallEndedLocked_NoOrphan(s, c, retry, in) ==
  LET active == (c = s.call_state)
      s1 == IF active
            THEN [s EXCEPT !.call_state = NoCall]
            ELSE s
      s2 == IF active /\ retry
            THEN IF ~s1.event_handler
                 THEN [s1 EXCEPT !.abort = "event_handler"]
                 ELSE IF s1.cs[c].seen_response
                 THEN StartCallLocked(
                        [s1 EXCEPT !.backoff = BackoffReset], in)
                 ELSE StartRetryTimerLocked(s1, in.jitter)
            ELSE s1
  IN IF s2.abort # "none" THEN s2
     ELSE CallUnref([s2 EXCEPT !.cs[c].ended =
                                  IF active THEN "active" ELSE "stale"], c)

\* CallState::CallEndedLocked(retry)
CallEndedLocked(s, c, retry, in) ==
  LET active == (c = s.call_state)
      s1 == IF active
            THEN [CallState_Orphan(s, c) EXCEPT !.call_state = NoCall]
            ELSE s
      s2 == IF active /\ retry
            THEN IF ~s1.event_handler
                 THEN [s1 EXCEPT !.abort = "event_handler"]
                 ELSE IF s1.cs[c].seen_response
                 THEN StartCallLocked(
                        [s1 EXCEPT !.backoff = BackoffReset], in)
                 ELSE StartRetryTimerLocked(s1, in.jitter)
            ELSE s1
  IN IF s2.abort # "none" THEN s2
     ELSE CallUnref([s2 EXCEPT !.cs[c].ended =
                                  IF active THEN "active" ELSE "stale"], c)

\* Fault: Orphan without event_handler_.reset().
SubchannelStreamClient_Orphan_KeepsHandler(s) ==
  LET s1 == [s EXCEPT !.orphans = @ + 1]
      s2 == IF s1.call_state # NoCall
            THEN [CallState_Orphan(s1, s1.call_state) EXCEPT !.call_state = NoCall]
            ELSE s1
      s3 == IF s2.retry_pending /\ s2.timer = "armed"
            THEN [s2 EXCEPT !.timer = "cancelled"]
            ELSE s2
  IN [s3 EXCEPT !.refs = @ - 1]

\* Fault: Orphan without call_state_.reset().
SubchannelStreamClient_Orphan_KeepsCallState(s) ==
  LET s1 == [s EXCEPT !.event_handler = FALSE, !.orphans = @ + 1]
      s3 == IF s1.retry_pending /\ s1.timer = "armed"
            THEN [s1 EXCEPT !.timer = "cancelled"]
            ELSE s1
  IN [s3 EXCEPT !.refs = @ - 1]

\* SubchannelStreamClient::Orphan(): the block under mu_, then Unref.
\* grpc_timer_cancel turns a timer that has not fired yet into a callback
\* with a cancellation error; it does nothing to one that already fired.
\* Fault: Orphan clears retry_timer_callback_pending_ when it cancels the
\* timer.
SubchannelStreamClient_Orphan_ClearsPending(s) ==
  LET s1 == [s EXCEPT !.event_handler = FALSE, !.orphans = @ + 1]
      s2 == IF s1.call_state # NoCall
            THEN [CallState_Orphan(s1, s1.call_state) EXCEPT !.call_state = NoCall]
            ELSE s1
      s3 == IF s2.retry_pending /\ s2.timer = "armed"
            THEN [s2 EXCEPT !.timer = "cancelled", !.retry_pending = FALSE]
            ELSE s2
  IN [s3 EXCEPT !.refs = @ - 1]

SubchannelStreamClient_Orphan(s) ==
  LET s1 == [s EXCEPT !.event_handler = FALSE, !.orphans = @ + 1]
      s2 == IF s1.call_state # NoCall
            THEN [CallState_Orphan(s1, s1.call_state) EXCEPT !.call_state = NoCall]
            ELSE s1
      s3 == IF s2.retry_pending /\ s2.timer = "armed"
            THEN [s2 EXCEPT !.timer = "cancelled"]
            ELSE s2
  IN [s3 EXCEPT !.refs = @ - 1]

\* ------------------------------------------- CallState: message reading
\* Fault: DoneReadingRecvMessage without Cancel() on a failed decode.
DoneReadingRecvMessage_NoCancel(s, c, error, decode_ok) ==
  IF error
  THEN [CallUnref(Cancel(s, c), c) EXCEPT !.cs[c].recv_message = "none"]
  ELSE LET s1 == [s EXCEPT !.cs[c].msgs = @ + 1]
           s2 == IF s1.event_handler
                 THEN [s1 EXCEPT
                         !.hist.after_failure = @ \/ s1.cs[c].decode_failed,
                         !.hist.after_end = @ \/ s1.cs[c].ended # "no",
                         !.cs[c].decode_failed = @ \/ ~decode_ok]
                 ELSE s1
       IN CombinerStart([s2 EXCEPT !.cs[c].seen_response = TRUE,
                                   !.cs[c].recv_message = "none"],
                        c, "recv_message_batch")

\* CallState::DoneReadingRecvMessage(error); decode_ok is what the
\* handler's RecvMessageReadyLocked returns.
DoneReadingRecvMessage(s, c, error, decode_ok) ==
  IF error
  THEN [CallUnref(Cancel(s, c), c) EXCEPT !.cs[c].recv_message = "none"]
  ELSE LET s1 == [s EXCEPT !.cs[c].msgs = @ + 1]
           s2 == IF s1.event_handler
                 THEN LET s3 == [s1 EXCEPT
                                   !.hist.after_failure =
                                      @ \/ s1.cs[c].decode_failed,
                                   !.hist.after_end =
                                      @ \/ s1.cs[c].ended # "no",
                                   !.cs[c].decode_failed = @ \/ ~decode_ok]
                      IN IF decode_ok THEN s3 ELSE Cancel(s3, c)
                 ELSE s1
       IN CombinerStart([s2 EXCEPT !.cs[c].seen_response = TRUE,
                                   !.cs[c].recv_message = "none"],
                        c, "recv_message_batch")

\* Fault: ContinueReadingRecvMessage drops the error of the pull.
ContinueReadingRecvMessage_DropsError(s, c, out, decode_ok) ==
  IF out = "suspend" THEN [s EXCEPT !.cs[c].recv_message = "reading"]
  ELSE DoneReadingRecvMessage(
         [s EXCEPT !.cs[c].read_error = @ \/ out = "error"],
         c, FALSE, decode_ok)

\* CallState::ContinueReadingRecvMessage(): the loop over Next/Pull ends
\* with the whole message ("complete"), with a pull error ("error"), or
\* with Next returning false ("suspend": OnByteStreamNext will be called).
ContinueReadingRecvMessage(s, c, out, decode_ok) ==
  IF out = "suspend" THEN [s EXCEPT !.cs[c].recv_message = "reading"]
  ELSE DoneReadingRecvMessage(
         [s EXCEPT !.cs[c].read_error = @ \/ out = "error"],
         c, out = "error", decode_ok)

\* ---------------------------------------------------------- environment
\* What the transport may answer to a recv_message op: no message once the
\* stream is cancelled or has ended, otherwise a message or the end of
\* the stream.
RecvMessageOutcomes(r) ==
  IF r.transport_cancelled \/ r.ended # "no" THEN {"null"}
  ELSE {"null", "complete", "error", "suspend"}

\* What a chunk-ready completion may carry: an error once the stream is
\* cancelled, otherwise the next chunk.
ByteStreamOutcomes(r) ==
  IF r.transport_cancelled THEN {"error"}
  ELSE {"complete", "error", "suspend"}

\* The trailing metadata is the last inbound completion of a call: the
\* initial metadata and every recv_message op handed to the transport
\* complete first.  Runs with limits.unordered drop that order for a
\* chunk-ready completion the call is waiting for.
TrailingMayComplete(r) ==
  /\ r.recv_trailing_metadata
  /\ ~r.recv_initial_metadata
  /\ \/ r.recv_message = "none"
     \/ limits.unordered /\ r.recv_message = "reading"

\* The status and error a trailing-metadata completion may carry.  A
\* cancelled stream completes with the cancellation error, unless its
\* trailing metadata had already been received when the cancel_stream op
\* arrived.
TrailingOutcomes(r) ==
  IF r.transport_cancelled
  THEN {<<"NONE", "CANCELLED">>} \cup (MetadataStatuses \X TrailingErrors)
  ELSE MetadataStatuses \X TrailingErrors

\* The inputs of a handler that may start a call.
Inputs == [create_ok : BOOLEAN, jitter : JitterChoices]

\* The bounds of the model.
InBounds(s) ==
  /\ s.abort # "bound"
  /\ s.backoff <= s.limits.retries
  /\ \A c \in Slots : s.cs[c].msgs <= s.limits.msgs

Do(s) == InBounds(s) /\ Set(s)

\* a handler can run: no assertion has ended the process and the client
\* object exists
Running == abort = "none" /\ refs > 0

\* The closures left of a call that has ended (its on_complete, its cancel
\* and a recv_message batch answered with no message) touch nothing but
\* that call's reference count, so they commute with every other handler:
\* the model runs them before anything else.
Quiet == \A c \in Slots : cs[c].alive => cs[c].ended = "no"
Scheduled(c) == cs[c].alive /\ (cs[c].ended # "no" \/ Quiet)

\* ---------------------------------------------------------------- Init
\* Nothing observed yet: timers armed in the current run of failures
\* without a message and the delay of the one before the last; a status
\* UNIMPLEMENTED was reported; OnRetryTimer ran after Orphan (with which
\* timer state); RecvTrailingMetadataReady ran after Orphan; a message was
\* delivered to the handler after a failed decode, or after the end, of
\* its attempt; a trailing-metadata completion ran while a chunk-ready
\* completion of its call was outstanding.
InitHist ==
  [armed |-> 0, prev_delay |-> 0, unimplemented |-> FALSE,
   late_timer |-> "none", late_trailing |-> FALSE,
   after_failure |-> FALSE, after_end |-> FALSE,
   early_trailing |-> FALSE]

\* The members as the constructor's initialiser list leaves them, before
\* its body calls StartCall(); l are the bounds of the run.
InitWith(l) ==
  /\ event_handler = TRUE
  /\ call_state = NoCall
  /\ retry_pending = FALSE
  /\ backoff = BackoffReset
  /\ refs = 1
  /\ timer = "idle"
  /\ timer_delay = 0
  /\ cs = [c \in Slots |-> FreeCall]
  /\ started = FALSE
  /\ orphans = 0
  /\ abort = "none"
  /\ limits = l
  /\ hist = InitHist

Init ==
  InitWith([live |-> MaxLive, msgs |-> MaxMsgs, retries |-> MaxRetries,
            delays |-> FALSE, unordered |-> FALSE])

\* Long runs of failures, with the delays of successive timers observed.
InitBackoff ==
  InitWith([live |-> MaxLive, msgs |-> MaxBackoffMsgs,
            retries |-> MaxBackoffRetries, delays |-> TRUE,
            unordered |-> FALSE])

\* A transport that may complete the trailing metadata of a call while a
\* chunk-ready completion of that call is outstanding.
InitUnordered ==
  InitWith([live |-> MaxLive, msgs |-> MaxMsgs, retries |-> MaxRetries,
            delays |-> FALSE, unordered |-> TRUE])

\* ------------------------------------------------------- client actions
\* SubchannelStreamClient::SubchannelStreamClient: StartCall()
Constructor(in) ==
  /\ Running
  /\ ~started
  /\ Do(StartCallLocked([Cur EXCEPT !.started = TRUE], in))

\* The owner releases its OrphanablePtr: Orphan() is called once.
Orphan ==
  /\ Running
  /\ Quiet
  /\ started
  /\ orphans = 0
  /\ Do(SubchannelStreamClient_Orphan(Cur))

\* Orphan() is called again on a client that still exists.
OrphanAgain ==
  /\ Running
  /\ Quiet
  /\ orphans >= 1
  /\ orphans < MaxOrphans
  /\ Do(SubchannelStreamClient_Orphan(Cur))

\* The timer substrate: the deadline of retry_timer_ passes.
TimerExpires ==
  /\ Running
  /\ Quiet
  /\ timer = "armed"
  /\ timer' = "fired"
  /\ UNCHANGED <<event_handler, call_state, retry_pending, backoff, refs,
                 timer_delay, cs, started, orphans, abort, limits, hist>>

\* Fault: OnRetryTimer without retry_timer_callback_pending_ = false.
OnRetryTimer_KeepsPending(in) ==
  /\ Running
  /\ Quiet
  /\ timer \in {"fired", "cancelled"}
  /\ LET error == (timer = "cancelled")
         s1 == [Cur EXCEPT !.timer = "idle", !.timer_delay = 0]
         s2 == IF s1.event_handler /\ ~error /\ s1.call_state = NoCall
               THEN StartCallLocked(s1, in)
               ELSE s1
     IN Do(IF s2.abort # "none" THEN s2 ELSE [s2 EXCEPT !.refs = @ - 1])

\* Fault: OnRetryTimer returns without Unref when the timer was cancelled.
OnRetryTimer_NoUnrefOnCancel(in) ==
  /\ Running
  /\ Quiet
  /\ timer \in {"fired", "cancelled"}
  /\ LET error == (timer = "cancelled")
         s1 == [Cur EXCEPT !.retry_pending = FALSE,
                           !.timer = "idle",
                           !.timer_delay = 0,
                           !.hist.prev_delay =
                              IF limits.delays THEN timer_delay ELSE 0,
                           !.hist.late_timer =
                              IF orphans > 0 THEN timer ELSE @]
         s2 == IF s1.event_handler /\ ~error /\ s1.call_state = NoCall
               THEN StartCallLocked(s1, in)
               ELSE s1
     IN Do(IF s2.abort # "none" \/ error THEN s2
           ELSE [s2 EXCEPT !.refs = @ - 1])

\* SubchannelStreamClient::OnRetryTimer(arg, error); error is the
\* cancellation error iff the timer was cancelled before it fired.
OnRetryTimer(in) ==
  /\ Running
  /\ Quiet
  /\ timer \in {"fired", "cancelled"}
  /\ LET error == (timer = "cancelled")
         s1 == [Cur EXCEPT !.retry_pending = FALSE,
                           !.timer = "idle",
                           !.timer_delay = 0,
                           !.hist.prev_delay =
                              IF limits.delays THEN timer_delay ELSE 0,
                           !.hist.late_timer =
                              IF orphans > 0 THEN timer ELSE @]
         s2 == IF s1.event_handler /\ ~error /\ s1.call_state = NoCall
               THEN StartCallLocked(s1, in)
               ELSE s1
     IN Do(IF s2.abort # "none" THEN s2 ELSE [s2 EXCEPT !.refs = @ - 1])

\* ---------------------------------------------------- CallState actions
\* CallState::StartBatchInCallCombiner: the closure at the head of the
\* call combiner hands its batch to the transport.
StartBatchInCallCombiner(c) ==
  /\ Running
  /\ Scheduled(c)
  /\ cs[c].combiner # <<>>
  /\ LET b == Head(cs[c].combiner)
         r == [cs[c] EXCEPT !.combiner = Tail(@)]
     IN /\ b # "cancel"
        /\ Do([Cur EXCEPT !.cs[c] =
                 IF b = "batch"
                 THEN [r EXCEPT !.on_complete = TRUE,
                                !.recv_initial_metadata = TRUE,
                                !.recv_message = "op"]
                 ELSE IF b = "recv_trailing_metadata_batch"
                 THEN [r EXCEPT !.recv_trailing_metadata = TRUE]
                 ELSE [r EXCEPT !.recv_message = "op"]])

\* CallState::StartCancel: the cancel_stream batch reaches the transport.
StartCancel(c) ==
  /\ Running
  /\ Scheduled(c)
  /\ cs[c].combiner # <<>>
  /\ Head(cs[c].combiner) = "cancel"
  /\ Do([Cur EXCEPT !.cs[c].combiner = Tail(@),
                    !.cs[c].cancel_op = TRUE,
                    !.cs[c].transport_cancelled = TRUE])

\* CallState::OnCancelComplete
OnCancelComplete(c) ==
  /\ Running
  /\ Scheduled(c)
  /\ cs[c].cancel_op
  /\ Do(CallUnref([Cur EXCEPT !.cs[c].cancel_op = FALSE], c))

\* CallState::OnComplete
OnComplete(c) ==
  /\ Running
  /\ Scheduled(c)
  /\ cs[c].on_complete
  /\ Do(CallUnref([Cur EXCEPT !.cs[c].on_complete = FALSE], c))

\* CallState::RecvInitialMetadataReady
RecvInitialMetadataReady(c) ==
  /\ Running
  /\ Scheduled(c)
  /\ cs[c].recv_initial_metadata
  /\ Do(CallUnref([Cur EXCEPT !.cs[c].recv_initial_metadata = FALSE], c))

\* Fault: RecvMessageReady reads a message without testing recv_message_.
RecvMessageReady_IgnoresNull(c, out, decode_ok) ==
  /\ Running
  /\ Scheduled(c)
  /\ cs[c].recv_message = "op"
  /\ ~cs[c].recv_initial_metadata
  /\ out \in RecvMessageOutcomes(cs[c])
  /\ Do(ContinueReadingRecvMessage(
          Cur, c, IF out = "null" THEN "complete" ELSE out, decode_ok))

\* CallState::RecvMessageReady: recv_message_ is null ("null") or a
\* message whose chunks ContinueReadingRecvMessage pulls.
RecvMessageReady(c, out, decode_ok) ==
  /\ Running
  /\ Scheduled(c)
  /\ cs[c].recv_message = "op"
  /\ ~cs[c].recv_initial_metadata
  /\ out \in RecvMessageOutcomes(cs[c])
  /\ Do(IF out = "null"
        THEN CallUnref([Cur EXCEPT !.cs[c].recv_message = "none"], c)
        ELSE ContinueReadingRecvMessage(Cur, c, out, decode_ok))

\* CallState::OnByteStreamNext(arg, error): "error" is an error passed in
\* or returned by PullSliceFromRecvMessage.
OnByteStreamNext(c, out, decode_ok) ==
  /\ Running
  /\ Scheduled(c)
  /\ cs[c].recv_message = "reading"
  /\ out \in ByteStreamOutcomes(cs[c])
  /\ Do(ContinueReadingRecvMessage(Cur, c, out, decode_ok))

\* Fault: the status of the error is used only when the metadata has none.
TrailingStatus_PrefersMetadata(md, err) ==
  IF md # "NONE" THEN md
  ELSE IF err # "NONE" THEN err ELSE "UNKNOWN"

\* The status RecvTrailingMetadataReady computes from the metadata md and
\* the error err.
TrailingStatus(md, err) ==
  IF err # "NONE" THEN err
  ELSE IF md = "NONE" THEN "UNKNOWN" ELSE md

\* Fault: RecvTrailingMetadataReady retries whatever the status.
RecvTrailingMetadataReady_AlwaysRetries(c, md, err, in) ==
  /\ Running
  /\ Scheduled(c)
  /\ TrailingMayComplete(cs[c])
  /\ <<md, err>> \in TrailingOutcomes(cs[c])
  /\ LET status == TrailingStatus(md, err)
         s1 == [Cur EXCEPT
                  !.cs[c].recv_trailing_metadata = FALSE,
                  !.cs[c].msgs = 0,
                  !.cs[c].md = md,
                  !.cs[c].err = err,
                  !.cs[c].status = status,
                  !.cs[c].notified = IF event_handler THEN @ + 1 ELSE @,
                  !.hist.unimplemented = @ \/ status = "UNIMPLEMENTED",
                  !.hist.late_trailing = @ \/ orphans > 0,
                  !.hist.early_trailing =
                     @ \/ cs[c].recv_message = "reading",
                  !.hist.armed = IF cs[c].msgs > 0 THEN 0 ELSE @,
                  !.hist.prev_delay = IF cs[c].msgs > 0 THEN 0 ELSE @]
     IN Do(CallEndedLocked(s1, c, TRUE, in))

\* Fault: RecvTrailingMetadataReady notifies without testing the handler.
RecvTrailingMetadataReady_AlwaysNotifies(c, md, err, in) ==
  /\ Running
  /\ Scheduled(c)
  /\ TrailingMayComplete(cs[c])
  /\ <<md, err>> \in TrailingOutcomes(cs[c])
  /\ LET status == TrailingStatus(md, err)
         s1 == [Cur EXCEPT
                  !.cs[c].recv_trailing_metadata = FALSE,
                  !.cs[c].msgs = 0,
                  !.cs[c].md = md,
                  !.cs[c].err = err,
                  !.cs[c].status = status,
                  !.cs[c].notified = @ + 1,
                  !.hist.unimplemented = @ \/ status = "UNIMPLEMENTED",
                  !.hist.late_trailing = @ \/ orphans > 0,
                  !.hist.early_trailing =
                     @ \/ cs[c].recv_message = "reading",
                  !.hist.armed = IF cs[c].msgs > 0 THEN 0 ELSE @,
                  !.hist.prev_delay = IF cs[c].msgs > 0 THEN 0 ELSE @]
     IN Do(CallEndedLocked(s1, c, status # "UNIMPLEMENTED", in))

\* Fault: RecvTrailingMetadataReady takes a stream closed with OK for an
\* end that needs no retry.
RecvTrailingMetadataReady_NoRetryOnOk(c, md, err, in) ==
  /\ Running
  /\ Scheduled(c)
  /\ TrailingMayComplete(cs[c])
  /\ <<md, err>> \in TrailingOutcomes(cs[c])
  /\ LET status == TrailingStatus(md, err)
         s1 == [Cur EXCEPT
                  !.cs[c].recv_trailing_metadata = FALSE,
                  !.cs[c].msgs = 0,
                  !.cs[c].md = md,
                  !.cs[c].err = err,
                  !.cs[c].status = status,
                  !.cs[c].notified = IF event_handler THEN @ + 1 ELSE @,
                  !.hist.unimplemented = @ \/ status = "UNIMPLEMENTED",
                  !.hist.late_trailing = @ \/ orphans > 0,
                  !.hist.early_trailing =
                     @ \/ cs[c].recv_message = "reading",
                  !.hist.armed = IF cs[c].msgs > 0 THEN 0 ELSE @,
                  !.hist.prev_delay = IF cs[c].msgs > 0 THEN 0 ELSE @]
     IN Do(CallEndedLocked(s1, c, status \notin {"UNIMPLEMENTED", "OK"}, in))

\* CallState::RecvTrailingMetadataReady(arg, error)
RecvTrailingMetadataReady(c, md, err, in) ==
  /\ Running
  /\ Scheduled(c)
  /\ TrailingMayComplete(cs[c])
  /\ <<md, err>> \in TrailingOutcomes(cs[c])
  /\ LET status == TrailingStatus(md, err)
         s1 == [Cur EXCEPT
                  !.cs[c].recv_trailing_metadata = FALSE,
                  !.cs[c].msgs = 0,
                  !.cs[c].md = md,
                  !.cs[c].err = err,
                  !.cs[c].status = status,
                  !.cs[c].notified = IF event_handler THEN @ + 1 ELSE @,
                  !.hist.unimplemented = @ \/ status = "UNIMPLEMENTED",
                  !.hist.late_trailing = @ \/ orphans > 0,
                  !.hist.early_trailing =
                     @ \/ cs[c].recv_message = "reading",
                  !.hist.armed = IF cs[c].msgs > 0 THEN 0 ELSE @,
                  !.hist.prev_delay = IF cs[c].msgs > 0 THEN 0 ELSE @]
     IN Do(CallEndedLocked(s1, c, status # "UNIMPLEMENTED", in))

\* Fault: the deleted CallState keeps its reference to the client.
AfterCallStackDestruction_KeepsClientRef(c) ==
  /\ Running
  /\ Scheduled(c)
  /\ cs[c].refs = 0
  /\ Do([Cur EXCEPT !.cs[c] = FreeCall])

\* CallState::AfterCallStackDestruction: the last reference to the call
\* is gone; delete the CallState, whose subchannel_stream_client_ member
\* releases its reference to the client.
AfterCallStackDestruction(c) ==
  /\ Running
  /\ Scheduled(c)
  /\ cs[c].refs = 0
  /\ Do([Cur EXCEPT !.cs[c] = FreeCall, !.refs = @ - 1])

\* ---------------------------------------------------------------- Next
Next ==
  \/ \E in \in Inputs : Constructor(in)
  \/ Orphan
  \/ TimerExpires
  \/ \E in \in Inputs : OnRetryTimer(in)
  \/ \E c \in Slots : StartBatchInCallCombiner(c)
  \/ \E c \in Slots : StartCancel(c)
  \/ \E c \in Slots : OnCancelComplete(c)
  \/ \E c \in Slots : OnComplete(c)
  \/ \E c \in Slots : RecvInitialMetadataReady(c)
  \/ \E c \in Slots, out \in {"null", "complete", "error", "suspend"},
        ok \in BOOLEAN : RecvMessageReady(c, out, ok)
  \/ \E c \in Slots, out \in {"complete", "error", "suspend"},
        ok \in BOOLEAN : OnByteStreamNext(c, out, ok)
  \/ \E c \in Slots, md \in MetadataStatuses, err \in TrailingErrors,
        in \in Inputs : RecvTrailingMetadataReady(c, md, err, in)
  \/ \E c \in Slots : AfterCallStackDestruction(c)

Spec == Init /\ [][Next]_vars

\* The same program in long runs of failures.
SpecBackoff == InitBackoff /\ [][Next]_vars

\* The same program on a transport without the order of trailing metadata
\* after chunk-ready completions.
SpecUnordered == InitUnordered /\ [][Next]_vars

\* Scheduling: the timer substrate runs every armed timer and its
\* callback, and every closure that is scheduled on the ExecCtx or in a
\* call combiner, and every completion the transport owes, runs.
Fairness ==
  /\ WF_vars(TimerExpires)
  /\ WF_vars(\E in \in Inputs : OnRetryTimer(in))
  /\ \A c \in Slots :
       /\ WF_vars(StartBatchInCallCombiner(c))
       /\ WF_vars(StartCancel(c))
       /\ WF_vars(OnCancelComplete(c))
       /\ WF_vars(OnComplete(c))
       /\ WF_vars(RecvInitialMetadataReady(c))
       /\ WF_vars(\E out \in {"null", "complete", "error", "suspend"},
                     ok \in BOOLEAN : RecvMessageReady(c, out, ok))
       /\ WF_vars(AfterCallStackDestruction(c))

SpecLive == Init /\ [][Next]_vars /\ Fairness

\* The trailing metadata of c can be delivered: RecvTrailingMetadataReady
\* is enabled for c (with the status UNIMPLEMENTED, which starts nothing,
\* if with no other).
TrailingDeliverable(c) ==
  Running /\ Scheduled(c) /\ TrailingMayComplete(cs[c])

\* A transport that moreover delivers every outstanding completion: the
\* chunk-ready completion of a message being read and the trailing
\* metadata of every call.  A step of RecvTrailingMetadataReady for c
\* ends TrailingDeliverable(c), so weak fairness of that action is that
\* the trailing metadata is not deliverable for ever.
FairnessDrain ==
  /\ Fairness
  /\ \A c \in Slots :
       /\ WF_vars(\E out \in {"complete", "error", "suspend"},
                     ok \in BOOLEAN : OnByteStreamNext(c, out, ok))
       /\ []<>(~TrailingDeliverable(c))

SpecDrain == Init /\ [][Next]_vars /\ FairnessDrain

\* The same program with an owner that may call Orphan() more than once.
NextReorphan == Next \/ OrphanAgain

SpecReorphan == Init /\ [][NextReorphan]_vars

\* ------------------------------------------------------------ sanity
TypeOK ==
  /\ event_handler \in BOOLEAN
  /\ call_state \in Slots \cup {NoCall}
  /\ retry_pending \in BOOLEAN
  /\ backoff \in 0..limits.retries
  /\ refs \in 0..(MaxLive + 2)
  /\ timer \in {"idle", "armed", "fired", "cancelled"}
  /\ \A c \in Slots : cs[c].refs \in 0..5
  /\ abort = "none"

\* ------------------------------------------------------------ claims
\* The attempts that have neither ended nor been released by Orphan.
Unended(c) == cs[c].alive /\ cs[c].ended = "no"

\* C1: at most one attempt is active at any time.  The assertion
\* GPR_ASSERT(call_state_ == nullptr) of StartCallLocked never fails, and
\* an attempt that has not ended and is not the one call_state_ records
\* is one that Orphan released and cancelled: a new attempt is never
\* started beside one recorded as active.
C1_OneActiveAttempt ==
  /\ abort # "call_state"
  /\ \A c \in Slots :
       (Unended(c) /\ c # call_state) => (orphans > 0 /\ cs[c].cancelled)
  /\ \A c, d \in Slots : (Unended(c) /\ Unended(d)) => c = d

\* An attempt that saw a message has ended and its successor, started in
\* the same transition, is the active one.
C1_Witness ==
  \E c, d \in Slots :
    /\ c # d
    /\ cs[c].alive /\ cs[c].ended = "active" /\ cs[c].seen_response
    /\ call_state = d /\ Unended(d)

\* C2: a non-null call_state_ and retry_timer_callback_pending_ = true
\* never hold together.
C2_NoCallWithTimerPending == ~(call_state # NoCall /\ retry_pending)

\* The retry timer fired and OnRetryTimer started the next attempt.
C2_Witness == call_state # NoCall /\ backoff > 0 /\ ~retry_pending

\* C3: once Orphan has run, the handler stays released, no CallState is
\* created and the retry timer is not armed, whichever callback runs: an
\* OnRetryTimer of a cancelled or of an expired timer, or a trailing
\* metadata completion.
C3_NothingStartsAfterOrphan ==
  [][orphans > 0 =>
       /\ ~event_handler'
       /\ \A c \in Slots : cs'[c].alive => cs[c].alive
       /\ timer' = "armed" => timer = "armed"
       /\ retry_pending' => retry_pending]_vars

\* OnRetryTimer has run after Orphan for a timer that had expired before
\* Orphan could cancel it.
C3_Witness == ~event_handler /\ hist.late_timer = "fired" /\ ~retry_pending

EndsRetriably(c) ==
  /\ call_state = c
  /\ cs[c].ended = "no"
  /\ cs'[c].ended = "active"
  /\ ~hist'.unimplemented

\* The delays the backoff may hand out in state n, over the jitter draws.
DelaysOf(n) == {NextAttemptTime(n, j) : j \in JitterChoices}

\* C5 as stated: when the active attempt ends retriably after a message,
\* the backoff is reset and the next attempt is started in the same
\* transition, and the retry timer is not armed.
C5_RestartWithoutTimer ==
  [][\A c \in Slots :
       (EndsRetriably(c) /\ cs[c].seen_response) =>
         /\ backoff' = BackoffReset
         /\ call_state' \notin {NoCall, c}
         /\ ~retry_pending'
         /\ timer' # "armed"]_vars

\* C5, amended: when the active attempt ends retriably after a message,
\* the backoff is reset and the next attempt is started in the same
\* transition; the timer is not armed if that attempt's call is created,
\* and if its creation fails the timer is armed in the same transition
\* with the initial delay, the first of the reset backoff.
C5_RestartAfterReset ==
  [][\A c \in Slots :
       (EndsRetriably(c) /\ cs[c].seen_response) =>
         \E d \in Slots \ {c} :
           /\ ~cs[d].alive
           /\ cs'[d].alive
           /\ cs'[d].call_starts = 1
           /\ IF cs'[d].create_failed
              THEN /\ call_state' = NoCall
                   /\ retry_pending'
                   /\ timer' = "armed"
                   /\ backoff' = BackoffReset + 1
                   /\ timer_delay' \in DelaysOf(BackoffReset)
              ELSE /\ call_state' = d
                   /\ backoff' = BackoffReset
                   /\ ~retry_pending'
                   /\ timer' = "idle"]_vars

\* An attempt that saw a message has ended, the creation of its successor
\* failed at once and the timer is armed with the first delay.
C5_Witness ==
  \E c, d \in Slots :
    /\ c # d
    /\ cs[c].alive /\ cs[c].ended = "active" /\ cs[c].seen_response
    /\ cs[d].alive /\ cs[d].create_failed
    /\ retry_pending /\ backoff = 1

\* The step in which the attempt c is created and its call creation fails.
CreationFails(c) == ~cs[c].alive /\ cs'[c].alive /\ cs'[c].create_failed

\* C6: an attempt whose call creation fails ends through CallEndedLocked
\* with retry and without a response.  OnCallStartLocked was called once
\* for it, it never has a message or one of its batches started (only
\* the cancellation that resetting call_state_ queues), no other attempt
\* starts in that transition, and the timer is armed with the next delay
\* of the backoff: the initial one when the constructor's attempt fails.
C6_CreationFailureArmsTimer ==
  /\ [](\A c \in Slots : (cs[c].alive /\ cs[c].create_failed) =>
          /\ cs[c].call_starts = 1
          /\ cs[c].ended = "active"
          /\ ~cs[c].seen_response /\ cs[c].msgs = 0
          /\ ~cs[c].on_complete /\ ~cs[c].recv_initial_metadata
          /\ cs[c].recv_message = "none" /\ ~cs[c].recv_trailing_metadata
          /\ \A i \in 1..Len(cs[c].combiner) : cs[c].combiner[i] = "cancel")
  /\ [][\A c \in Slots : CreationFails(c) =>
          LET reset == \E e \in Slots :
                         EndsRetriably(e) /\ cs[e].seen_response
              b == IF reset THEN BackoffReset ELSE backoff
          IN /\ call_state' = NoCall
             /\ \A d \in Slots \ {c} :
                  (cs'[d].alive /\ cs'[d].ended = "no") => Unended(d)
             /\ reset \/ \A d \in Slots \ {c} : cs'[d].alive => cs[d].alive
             /\ retry_pending'
             /\ timer' = "armed"
             /\ backoff' = b + 1
             /\ timer_delay' \in DelaysOf(b)
             /\ ~started =>
                  timer_delay' \in
                    {Jittered(InitialBackoffMs, j) : j \in JitterChoices}]_vars

\* The call creation of a retry failed: the timer is armed again, with
\* the second delay of the backoff.
C6_Witness ==
  \E c \in Slots :
    /\ cs[c].alive /\ cs[c].create_failed
    /\ timer = "armed" /\ backoff = 2
    /\ timer_delay = PolicyDelay(1)

\* C7: an attempt that ends with UNIMPLEMENTED leads to no retry, with or
\* without a response seen: from then on call_state_ is null, no retry
\* timer is armed or pending, and no CallState is created.
C7_UnimplementedNeverRetries ==
  [][hist'.unimplemented =>
       /\ call_state' = NoCall
       /\ ~retry_pending'
       /\ timer' = "idle"
       /\ \A c \in Slots : cs'[c].alive => cs[c].alive]_vars

\* The active attempt ended with UNIMPLEMENTED after it saw a response.
C7_Witness ==
  /\ hist.unimplemented
  /\ \E c \in Slots :
       cs[c].alive /\ cs[c].ended = "active" /\ cs[c].seen_response
         /\ cs[c].notified = 1

\* C8 as stated: every attempt that has ended was notified of its
\* terminal status exactly once.
C8_NotifiedOncePerAttempt ==
  \A c \in Slots : (cs[c].alive /\ cs[c].ended # "no") => cs[c].notified = 1

\* C8, amended: RecvTrailingMetadataReadyLocked is called at most once
\* per attempt: exactly once when the attempt's trailing metadata
\* completes while the handler is present, and never for an attempt whose
\* call creation fails nor for one that ends after Orphan.
C8_NotifiedOnceAtTrailing ==
  \A c \in Slots : cs[c].alive =>
    /\ cs[c].notified <= 1
    /\ cs[c].notified = 1 <=>
         (cs[c].ended = "active" /\ ~cs[c].create_failed)

\* The trailing metadata of an attempt completed after Orphan: no
\* notification.
C8_Witness ==
  \E c \in Slots :
    cs[c].alive /\ cs[c].ended = "stale" /\ cs[c].notified = 0

\* The step in which the active attempt c, one of whose messages the
\* handler failed to decode, ends.
EndsAfterDecodeFailure(c) ==
  /\ cs[c].decode_failed
  /\ call_state = c
  /\ cs[c].ended = "no"
  /\ cs'[c].ended = "active"

AliveCalls == {c \in Slots : cs[c].alive}

\* C11: the client's reference count is the owner's reference (until
\* Orphan), one per CallState that exists and one per retry timer whose
\* callback is still to run: arming takes one reference and OnRetryTimer
\* releases one, whether the timer fired or was cancelled and whether a
\* call was started.  With a timer pending the client exists, and the
\* OnRetryTimer that runs after Orphan starts no attempt and arms nothing.
C11_TimerHoldsOneReference ==
  /\ [](refs = (IF orphans = 0 THEN 1 ELSE 0) + Cardinality(AliveCalls)
                + (IF retry_pending THEN 1 ELSE 0))
  /\ [](retry_pending => refs > 0)
  /\ [][(retry_pending /\ timer \in {"fired", "cancelled"} /\ timer' = "idle"
           /\ orphans > 0) =>
          /\ refs' = refs - 1
          /\ ~retry_pending'
          /\ call_state' = NoCall
          /\ cs' = cs]_vars

\* Orphan ran with the timer pending and the timer's reference is the
\* only one left on the client.
C11_Witness ==
  /\ orphans = 1 /\ retry_pending /\ timer = "cancelled"
  /\ refs = 1 /\ AliveCalls = {}

\* Orphan was not called and no attempt ended with UNIMPLEMENTED.
Healthy == orphans = 0 /\ ~hist.unimplemented

\* An attempt has just been started: it is the active one, or its call
\* creation failed and its CallState is not deleted yet.
AttemptStarted ==
  \/ call_state # NoCall
  \/ \E c \in Slots : cs[c].alive /\ cs[c].create_failed

\* C12: while Orphan has not been called and no attempt has ended with
\* UNIMPLEMENTED, the client always has an active call or a pending retry
\* timer, and whenever it has no active call a new attempt is eventually
\* started (or Orphan is called, or an attempt ends with UNIMPLEMENTED).
C12_SelfHealing ==
  /\ []((started /\ Healthy) => (call_state # NoCall \/ retry_pending))
  /\ (started /\ Healthy /\ call_state = NoCall /\ AliveCalls = {})
       ~> (AttemptStarted \/ ~Healthy)

\* The second retry timer of a run has fired and the attempt it started
\* is the active one.
C12_Witness ==
  /\ Healthy
  /\ call_state # NoCall
  /\ hist.armed = 2
  /\ ~retry_pending /\ timer = "idle"

\* C13: seen_response_ of a CallState becomes true only in a step that
\* delivers a message of that attempt to the handler and in which the
\* handler's decode succeeds: not when the decode fails, and not when the
\* handler is already released.
C13_SeenResponseOnlyOnSuccess ==
  [][\A c \in Slots :
       (cs[c].alive /\ ~cs[c].seen_response /\ cs'[c].seen_response) =>
         (event_handler /\ ~cs'[c].decode_failed)]_vars

\* The attempts whose trailing metadata has completed.
TrailingDone(c) == cs[c].alive /\ cs[c].ended # "no" /\ ~cs[c].create_failed

\* The step in which the active attempt c ends at its trailing metadata.
EndsActive(c) ==
  call_state = c /\ cs[c].ended = "no" /\ cs'[c].ended = "active"

\* The step retries: it creates a CallState or arms the retry timer.
Retries ==
  \/ \E d \in Slots : ~cs[d].alive /\ cs'[d].alive
  \/ ~retry_pending /\ retry_pending'

\* C14 as stated: the terminal status is the one in the trailing
\* metadata whenever there is one, and the status of the error otherwise;
\* the retry decision follows that status.
C14_MetadataStatusPreferred ==
  /\ [](\A c \in Slots : TrailingDone(c) =>
          cs[c].status =
            IF cs[c].md # "NONE" THEN cs[c].md
            ELSE IF cs[c].err # "NONE" THEN cs[c].err ELSE "UNKNOWN")
  /\ [][\A c \in Slots : EndsActive(c) =>
          (Retries <=>
             (IF cs'[c].md # "NONE" THEN cs'[c].md ELSE cs'[c].err)
               # "UNIMPLEMENTED")]_vars

\* C14, amended: the terminal status is the one of the error whenever an
\* error is delivered with the completion; the status in the trailing
\* metadata is used only when there is no error, and UNKNOWN when there
\* is neither.  The retry decision follows that status.
C14_ErrorStatusPreferred ==
  /\ [](\A c \in Slots : TrailingDone(c) =>
          cs[c].status =
            IF cs[c].err # "NONE" THEN cs[c].err
            ELSE IF cs[c].md # "NONE" THEN cs[c].md ELSE "UNKNOWN")
  /\ [][\A c \in Slots : EndsActive(c) =>
          (Retries <=>
             (IF cs'[c].err # "NONE" THEN cs'[c].err ELSE cs'[c].md)
               # "UNIMPLEMENTED")]_vars

\* The metadata said UNIMPLEMENTED, the error CANCELLED: the attempt was
\* retried.
C14_Witness ==
  \E c \in Slots :
    /\ TrailingDone(c) /\ cs[c].ended = "active"
    /\ cs[c].md = "UNIMPLEMENTED" /\ cs[c].err = "CANCELLED"
    /\ cs[c].status = "CANCELLED" /\ cs[c].notified = 1
    /\ (call_state # NoCall \/ retry_pending)

\* The closures of kind k queued in the call combiner of c.
Queued(c, k) ==
  Cardinality({i \in 1..Len(cs[c].combiner) : cs[c].combiner[i] = k})

\* The cancel operations of c under way: StartCancel queued in the call
\* combiner, or the cancel_stream batch at the transport.
CancelsUnderWay(c) == Queued(c, "cancel") + (IF cs[c].cancel_op THEN 1 ELSE 0)

\* C15: for every CallState, however often and from wherever Cancel is
\* called, cancelled_ goes from false to true at most once and never
\* back; StartCancel runs at most once; and one call reference is taken
\* for the cancel operation, when the flag is set, and released once, by
\* OnCancelComplete.
C15_CancelOnce ==
  /\ [](\A c \in Slots : cs[c].alive =>
          /\ cs[c].cancels = (IF cs[c].cancelled THEN 1 ELSE 0)
          /\ CancelsUnderWay(c) <= cs[c].cancels
          /\ CancelsUnderWay(c) = 0 =>
                (cs[c].cancelled <=> cs[c].transport_cancelled)
          /\ cs[c].cancel_op => cs[c].transport_cancelled)
  /\ [][\A c \in Slots : (cs[c].alive /\ cs'[c].alive) =>
          /\ cs[c].cancelled => cs'[c].cancelled
          /\ (cs[c].cancel_op /\ ~cs'[c].cancel_op) =>
                cs'[c].refs = cs[c].refs - 1
          /\ (~cs[c].cancel_op /\ cs'[c].cancel_op) =>
                (~cs[c].transport_cancelled /\ cs'[c].refs = cs[c].refs)]_vars

\* Cancel was called for a failed decode and again when the attempt
\* ended; the one cancel operation has completed.
C15_Witness ==
  \E c \in Slots :
    /\ cs[c].alive /\ cs[c].decode_failed /\ cs[c].ended = "active"
    /\ cs[c].cancels = 1 /\ cs[c].transport_cancelled
    /\ CancelsUnderWay(c) = 0

\* The references on the call of c that are owed: the initial one until
\* CallEndedLocked, three for the first batch until it is started, then
\* one each for on_complete, recv_initial_metadata_ready and the
\* recv_message chain (a batch queued, an op at the transport, or a
\* message being read), and one per cancel operation under way.
Holders(c) ==
  (IF cs[c].ended = "no" THEN 1 ELSE 0)
  + 3 * Queued(c, "batch")
  + (IF cs[c].on_complete THEN 1 ELSE 0)
  + (IF cs[c].recv_initial_metadata THEN 1 ELSE 0)
  + (IF cs[c].recv_message # "none" THEN 1 ELSE 0)
  + Queued(c, "recv_message_batch")
  + CancelsUnderWay(c)

\* Nothing of c is outstanding: no closure in its call combiner and no
\* completion owed by the transport.
Drained(c) ==
  /\ cs[c].combiner = <<>>
  /\ ~cs[c].on_complete /\ ~cs[c].recv_initial_metadata
  /\ cs[c].recv_message = "none" /\ ~cs[c].recv_trailing_metadata
  /\ ~cs[c].cancel_op

\* C16: the reference count of a CallState's call is exactly the number
\* of references owed, so each is released once and the count is never
\* negative; the trailing metadata is outstanding only while the initial
\* reference is held; and a CallState is deleted only with the count at
\* zero, after CallEndedLocked, with nothing of it outstanding, so that
\* no callback can run on it afterwards.
C16_DeletedWhenDrained ==
  /\ [](\A c \in Slots : cs[c].alive =>
          /\ cs[c].refs = Holders(c)
          /\ cs[c].refs >= 0
          /\ (cs[c].recv_trailing_metadata
                \/ Queued(c, "recv_trailing_metadata_batch") > 0) =>
               cs[c].ended = "no")
  /\ [](\A c \in Slots : ~cs[c].alive => (cs[c] = FreeCall /\ Drained(c)))
  /\ [][\A c \in Slots : (cs[c].alive /\ ~cs'[c].alive) =>
          /\ cs[c].refs = 0
          /\ cs[c].ended # "no"
          /\ Drained(c)
          /\ refs' = refs - 1]_vars

\* An attempt that read a message and was cancelled has released its
\* last reference and is about to be deleted.
C16_Witness ==
  \E c \in Slots :
    /\ cs[c].alive /\ cs[c].refs = 0
    /\ cs[c].seen_response /\ cs[c].transport_cancelled
    /\ cs[c].ended # "no"

\* The step in which the trailing metadata of c completes although c is
\* not the CallState that call_state_ records.
EndsStale(c) ==
  /\ cs[c].alive /\ c # call_state
  /\ cs[c].recv_trailing_metadata /\ ~cs'[c].recv_trailing_metadata

\* C17: CallEndedLocked on a CallState that call_state_ no longer records
\* changes nothing of the client, whatever retry is: call_state_,
\* event_handler_, retry_timer_callback_pending_, the backoff, the timer
\* and the client's reference count stay as they are, no assertion
\* fails, no CallState is created or touched, the handler is not
\* notified, and the call loses exactly its initial reference.
C17_StaleCallEndedChangesNothing ==
  [][\A c \in Slots : EndsStale(c) =>
       /\ orphans > 0
       /\ UNCHANGED <<call_state, event_handler, retry_pending, backoff,
                      timer, timer_delay, refs, abort>>
       /\ \A d \in Slots \ {c} : cs'[d] = cs[d]
       /\ cs'[c].ended = "stale"
       /\ cs'[c].refs = cs[c].refs - 1
       /\ cs'[c].notified = cs[c].notified
       /\ cs'[c].combiner = cs[c].combiner
       /\ cs'[c].cancelled = cs[c].cancelled
       /\ cs'[c].cancels = cs[c].cancels]_vars

\* After Orphan an attempt ended with a status that asks for a retry.
C17_Witness ==
  \E c \in Slots :
    /\ cs[c].alive /\ cs[c].ended = "stale"
    /\ cs[c].status \in {"OK", "UNKNOWN", "CANCELLED"}
    /\ call_state = NoCall /\ ~retry_pending

\* The step in which pulling a chunk of a message of c reports an error.
PullFails(c) == cs[c].alive /\ ~cs[c].read_error /\ cs'[c].read_error

\* C18: when pulling a chunk reports an error, in RecvMessageReady or in
\* OnByteStreamNext, the attempt is cancelled (by this step, if it was
\* not already), no message is handed to the handler, seen_response_
\* keeps its value, the recv_message reference is released once, and no
\* recv_message batch is issued then or later.
C18_PullErrorEndsReading ==
  /\ [][\A c \in Slots : PullFails(c) =>
          /\ cs[c].recv_message \in {"op", "reading"}
          /\ cs'[c].recv_message = "none"
          /\ cs'[c].cancelled
          /\ cs'[c].cancels = 1
          /\ cs'[c].msgs = cs[c].msgs
          /\ cs'[c].decode_failed = cs[c].decode_failed
          /\ cs'[c].seen_response = cs[c].seen_response
          /\ hist' = hist
          /\ cs'[c].refs =
               cs[c].refs - 1 + (IF cs[c].cancelled THEN 0 ELSE 1)
          /\ UNCHANGED <<call_state, event_handler, retry_pending, backoff,
                         refs, timer>>]_vars
  /\ [](\A c \in Slots : (cs[c].alive /\ cs[c].read_error) =>
          /\ cs[c].recv_message = "none"
          /\ Queued(c, "recv_message_batch") = 0
          /\ cs[c].cancelled)

\* The second message of an attempt failed in a pull: the attempt keeps
\* the response it had seen and is cancelled.
C18_Witness ==
  \E c \in Slots :
    /\ cs[c].alive /\ cs[c].read_error /\ cs[c].ended = "no"
    /\ cs[c].seen_response /\ cs[c].msgs = 1
    /\ ~cs[c].decode_failed /\ cs[c].transport_cancelled

\* The handler was handed a message of an attempt after that attempt's
\* terminal status.
MessageAfterEnd == hist.after_end

\* C19 as stated: no message of an attempt reaches the handler after the
\* attempt's terminal status, whether or not a chunk-ready completion of
\* the attempt was outstanding when RecvTrailingMetadataReady ran.
C19_NoMessageAfterEnd == ~MessageAfterEnd

\* C19: a message of an attempt reaches the handler after the attempt's
\* terminal status only in runs where the transport completed trailing
\* metadata while a chunk-ready completion of the call was outstanding;
\* a call that has ended with no chunk outstanding reads nothing more.
C19_TrailingLastOnOrderedTransport ==
  /\ MessageAfterEnd => hist.early_trailing
  /\ \A c \in Slots :
       (cs[c].alive /\ cs[c].ended # "no" /\ ~hist.early_trailing) =>
          cs[c].recv_message # "reading" /\ cs[c].msgs = 0

\* An attempt that had delivered a message ended in order, its status was
\* reported and its successor started while closures of it are still
\* outstanding.
C19_Witness ==
  \E c \in Slots :
    /\ cs[c].alive /\ cs[c].ended = "active" /\ cs[c].seen_response
    /\ cs[c].notified = 1 /\ cs[c].recv_message = "op"
    /\ call_state \notin {c, NoCall}
    /\ ~hist.early_trailing /\ ~MessageAfterEnd

\* The callback of the retry timer has been scheduled and has not run.
TimerCallbackPending == timer # "idle"

\* C20: after Orphan, on a transport that delivers every outstanding
\* completion and a timer substrate that runs the pending callback, every
\* CallState is deleted and the client's reference count reaches zero;
\* and the count is not zero while a CallState or a pending retry-timer
\* callback exists.
C20_DrainsAfterOrphan ==
  /\ []((AliveCalls # {} \/ TimerCallbackPending) => refs > 0)
  /\ (orphans > 0) ~> (AliveCalls = {} /\ ~TimerCallbackPending /\ refs = 0)

\* The client is gone after an Orphan that found a call in flight, whose
\* trailing metadata came after it.
C20_Witness ==
  /\ orphans = 1 /\ refs = 0 /\ AliveCalls = {}
  /\ ~TimerCallbackPending /\ hist.late_trailing

\* C21 as stated: retry_timer_callback_pending_ is true from the arming
\* of the timer and false once the timer's callback has run or Orphan has
\* cancelled the timer.
C21_PendingUntilFiredOrCancelled ==
  retry_pending <=> timer \in {"armed", "fired"}

\* C21: retry_timer_callback_pending_ is true from the arming of the timer
\* until OnRetryTimer runs, for an expired timer and for a cancelled one:
\* Orphan cancels the timer (to no effect if it has expired) and leaves
\* the flag, which only OnRetryTimer clears.
C21_PendingUntilCallbackRuns ==
  /\ [](retry_pending <=> TimerCallbackPending)
  /\ [][(retry_pending /\ ~retry_pending') =>
          (timer \in {"fired", "cancelled"} /\ orphans' = orphans)]_vars
  /\ [][(orphans' # orphans /\ retry_pending) =>
          /\ retry_pending'
          /\ timer' = IF timer = "armed" THEN "cancelled" ELSE timer]_vars

\* Orphan has cancelled the timer and its callback has not run.
C21_Witness ==
  orphans = 1 /\ timer = "cancelled" /\ retry_pending /\ ~event_handler

\* C22: CallEndedLocked finds the handler whenever it retries: while a
\* CallState is the client's call the handler is present (Orphan releases
\* both under the mutex), a call that ends or fails to be created as the
\* client's call does so before Orphan, and the assertion on
\* event_handler_ never fails.
C22_HandlerPresentAtRetry ==
  /\ [](abort # "event_handler")
  /\ [](call_state # NoCall => (event_handler /\ orphans = 0))
  /\ [][\A c \in Slots :
          ((EndsActive(c) /\ Retries) \/ CreationFails(c)) =>
             (event_handler /\ event_handler' /\ orphans' = 0)]_vars

\* CallEndedLocked retried twice with the handler present, arming the
\* timer, and Orphan came after it.
C22_Witness ==
  /\ abort = "none" /\ orphans = 1 /\ ~event_handler
  /\ hist.armed = 2 /\ timer = "cancelled" /\ call_state = NoCall

\* C23: when the active attempt ends with any status but UNIMPLEMENTED,
\* OK and UNKNOWN included, the step retries: after a response it creates
\* a new CallState (which is the client's call, or has failed to be
\* created and armed the timer), otherwise it arms the retry timer.
C23_EveryOtherStatusRetries ==
  [][\A c \in Slots :
       (EndsActive(c) /\ cs'[c].status # "UNIMPLEMENTED") =>
          /\ cs'[c].status \in {"OK", "UNKNOWN", "CANCELLED"}
          /\ abort' = "none"
          /\ IF cs[c].seen_response
             THEN \E d \in Slots \ {c} :
                    /\ ~cs[d].alive /\ cs'[d].alive
                    /\ IF cs'[d].create_failed
                       THEN call_state' = NoCall /\ timer' = "armed"
                       ELSE call_state' = d /\ timer' = "idle"
             ELSE /\ call_state' = NoCall
                  /\ ~retry_pending /\ retry_pending'
                  /\ timer' = "armed"
                  /\ \A d \in Slots : cs'[d].alive = cs[d].alive]_vars

\* The peer sent neither status nor error after a response, and the next
\* attempt is the client's call.
C23_Witness ==
  \E c \in Slots :
    /\ cs[c].alive /\ cs[c].ended = "active" /\ cs[c].seen_response
    /\ cs[c].md = "NONE" /\ cs[c].err = "NONE" /\ cs[c].status = "UNKNOWN"
    /\ call_state \notin {c, NoCall} /\ event_handler

\* The step in which c stops being the client's call.
Released(c) == call_state = c /\ call_state' # c

\* C24: a CallState that stops being the client's call, by Orphan or by
\* CallEndedLocked, at its trailing metadata or at a failed creation, is
\* cancelled from then on; if it was not cancelled before, the step takes
\* the reference of the cancel and queues StartCancel, and the release of
\* the initial reference in the same step leaves that reference.
C24_ReleasedCallIsCancelled ==
  /\ [](\A c \in Slots : (cs[c].alive /\ c # call_state) => cs[c].cancelled)
  /\ [][\A c \in Slots : Released(c) =>
          /\ cs'[c].alive /\ cs'[c].cancelled
          /\ ~cs[c].cancelled =>
               /\ cs'[c].cancels = 1
               /\ Queued(c, "cancel") = 0
               /\ cs'[c].combiner = Append(cs[c].combiner, "cancel")
               /\ cs'[c].refs >= 1
               /\ cs'[c].refs = cs[c].refs + 1
                                - (IF cs'[c].ended = "no" THEN 0 ELSE 1)]_vars
  /\ [][\A c \in Slots : CreationFails(c) =>
          /\ cs'[c].cancelled /\ cs'[c].cancels = 1
          /\ cs'[c].combiner = <<"cancel">>
          /\ cs'[c].refs = 1]_vars

\* An attempt ended at its trailing metadata, which cancelled it, and the
\* cancel_stream op has not been sent yet.
C24_Witness ==
  \E c \in Slots :
    /\ cs[c].alive /\ cs[c].ended = "active" /\ ~cs[c].create_failed
    /\ cs[c].status = "OK" /\ cs[c].cancelled /\ cs[c].cancels = 1
    /\ ~cs[c].transport_cancelled /\ ~cs[c].decode_failed
    /\ ~cs[c].read_error

====
